---------------------------- MODULE Spec2Model ----------------------------
(***************************************************************************)
(* Model of src/src/cdk-imports-swap.ts: the pipeline of main() over a set *)
(* of template files (analyzeTemplate, catalog merge, findMatchingNamed-   *)
(* Export, the replacement loop with replaceImportsInObject and            *)
(* writeFileSync, the summary line), run once or several times in a row.   *)
(*                                                                         *)
(* Representation.                                                         *)
(*  - A JavaScript string is a tuple of chunks, so that startsWith and     *)
(*    includes are computed and not assumed: "Stk:ExportsOutputFnB" is     *)
(*    <<"Stk:", "ExportsOutputFn", "B">>.  The empty string is <<>>.       *)
(*  - A JSON value is a record [t, s, k]: t is "s" (string scalar), "a"    *)
(*    (array), "o" (object) or "u" (undefined, only as the result of a     *)
(*    property read); s is the string of a scalar; k is the ordered tuple  *)
(*    of <<key, value>> entries, as Object.entries lists them (an array's  *)
(*    keys are its indices).  Key order is kept because JSON.stringify     *)
(*    and the catalog's iteration depend on it.                            *)
(*  - A file is [fmt, tree]: fmt is "source" (the bytes the generator      *)
(*    wrote), "indent1" (bytes written by JSON.stringify(content, null, 1))*)
(*    or "invalid" (not JSON; JSON.parse throws).                          *)
(***************************************************************************)
EXTENDS Integers, Sequences, FiniteSets, TLC

\* ------------------------------------------------------------------ bounds
\* Number of template files found under cdk.out/assembly-*.
NumFiles == 2
\* Deepest nesting (alternating array / mapping levels) of a reference.
MaxDepth == 2
\* Number of successive runs of the pipeline on the same files.
MaxRuns == 2

\* ----------------------------------------------------------- JSON values
Str(s) == [t |-> "s", s |-> s, k |-> <<>>]
Obj(kvs) == [t |-> "o", s |-> <<>>, k |-> kvs]
Arr(elems) ==
  [t |-> "a", s |-> <<>>,
   k |-> [i \in 1..Len(elems) |-> << <<ToString(i - 1)>>, elems[i] >>]]
Undefined == [t |-> "u", s |-> <<>>, k |-> <<>>]
Null == [t |-> "null", s |-> <<>>, k |-> <<>>]

\* typeof obj === 'object' && obj !== null
IsObject(obj) == obj.t \in {"o", "a"}

\* obj[key]: the property's value, undefined when absent (or obj is no object)
Get(obj, key) ==
  IF \E i \in 1..Len(obj.k) : obj.k[i][1] = key
    THEN obj.k[CHOOSE i \in 1..Len(obj.k) : obj.k[i][1] = key][2]
    ELSE Undefined

\* obj[key] = value on an existing key: the key keeps its position
SetKey(obj, key, value) ==
  [obj EXCEPT !.k = [i \in 1..Len(obj.k) |->
                       IF obj.k[i][1] = key THEN <<key, value>> ELSE obj.k[i]]]

\* JavaScript truthiness of a value in a condition
Truthy(v) == v.t \notin {"u", "null"} /\ ~(v.t = "s" /\ v.s = <<>>)

ExportsOutputFn == "ExportsOutputFn"
FnImportValue == <<"Fn::ImportValue">>

\* String.prototype.startsWith / includes for the literal 'ExportsOutputFn'
StartsWith(s, lit) == Len(s) > 0 /\ s[1] = lit
Includes(s, lit) == \E i \in 1..Len(s) : s[i] = lit

\* ------------------------------------------- Record<string, X> (ordered map)
\* A JavaScript object used as a map: the tuple of <<key, value>> entries in
\* insertion order, which is the order Object.entries lists string keys in.
EmptyMap == <<>>
MapHas(m, key) == \E i \in 1..Len(m) : m[i][1] = key
MapGet(m, key) == m[CHOOSE i \in 1..Len(m) : m[i][1] = key][2]
\* m[key] = value: overwrite in place, or append a new key
MapPut(m, key, value) ==
  IF MapHas(m, key)
    THEN [i \in 1..Len(m) |-> IF m[i][1] = key THEN <<key, value>> ELSE m[i]]
    ELSE Append(m, <<key, value>>)

\* Object.assign(target, source): every entry of source, in order
RECURSIVE AssignFrom(_, _, _)
AssignFrom(target, source, i) ==
  IF i > Len(source) THEN target
  ELSE AssignFrom(MapPut(target, source[i][1], source[i][2]), source, i + 1)
ObjectAssign(target, source) == AssignFrom(target, source, 1)

\* ---------------------------------------------------------- JSON.stringify
\* The serialized text as a tuple of tokens: keys in the object's own order,
\* no canonical ordering.  JSON.stringify(undefined) is undefined.
RECURSIVE JSONstringify(_)
RECURSIVE StringifyEntries(_, _, _)
StringifyEntries(obj, i, withKeys) ==
  IF i > Len(obj.k) THEN <<>>
  ELSE (IF i > 1 THEN <<",">> ELSE <<>>)
       \o (IF withKeys THEN <<"\"">> \o obj.k[i][1] \o <<"\"", ":">> ELSE <<>>)
       \o JSONstringify(obj.k[i][2])
       \o StringifyEntries(obj, i + 1, withKeys)
JSONstringify(v) ==
  CASE v.t = "s" -> <<"\"">> \o v.s \o <<"\"">>
    [] v.t = "a" -> <<"[">> \o StringifyEntries(v, 1, FALSE) \o <<"]">>
    [] v.t = "o" -> <<"{">> \o StringifyEntries(v, 1, TRUE) \o <<"}">>
    [] v.t = "null" -> <<"null">>
    [] OTHER -> <<"undefined">>

\* -------------------------------------------------------- analyzeTemplate
\* JSON.parse(fs.readFileSync(filePath)) throws on a file that is not JSON.
\* ParseFailsLenient: the failure swallowed, the file analysed as empty.
ParseFailsLenient(file) == FALSE
ParseFails(file) == file.fmt = "invalid"
JSONparse(file) == file.tree

\* findImports without the 'ExportsOutputFn' test on the target
RECURSIVE findImportsAll(_, _)
findImportsAll(obj, path) ==
  IF ~IsObject(obj) THEN <<>>
  ELSE
    LET importValue == Get(obj, FnImportValue)
        own == IF Truthy(importValue) /\ importValue.t = "s"
                 THEN << [path |-> path, value |-> importValue.s] >>
                 ELSE <<>>
        Rest[i \in 1..(Len(obj.k) + 1)] ==
          IF i > Len(obj.k) THEN <<>>
          ELSE findImportsAll(obj.k[i][2], Append(path, obj.k[i][1])) \o Rest[i + 1]
    IN own \o Rest[1]

\* findImports(obj, path): the imports pushed while walking obj, in order.
\* The path `${path}.${key}` is kept as the tuple of keys.
RECURSIVE findImports(_, _)
findImports(obj, path) ==
  IF ~IsObject(obj) THEN <<>>
  ELSE
    LET importValue == Get(obj, FnImportValue)
        own == IF Truthy(importValue) /\ importValue.t = "s"
                  /\ Includes(importValue.s, ExportsOutputFn)
                 THEN << [path |-> path, value |-> importValue.s] >>
                 ELSE <<>>
        Rest[i \in 1..(Len(obj.k) + 1)] ==
          IF i > Len(obj.k) THEN <<>>
          ELSE findImports(obj.k[i][2], Append(path, obj.k[i][1])) \o Rest[i + 1]
    IN own \o Rest[1]

\* The loop over Object.entries(outputs): acc is [exportsOutputFn, namedExports]
RECURSIVE FindExports(_, _, _)
FindExports(outputs, i, acc) ==
  IF i > Len(outputs.k) THEN acc
  ELSE
    LET key == outputs.k[i][1]
        output == outputs.k[i][2]
        Export == Get(output, <<"Export">>)
        Name == Get(Export, <<"Name">>).s
        Value == Get(output, <<"Value">>)
    IN IF StartsWith(key, ExportsOutputFn) /\ Truthy(Export)
         THEN FindExports(outputs, i + 1,
                [acc EXCEPT !.exportsOutputFn =
                   MapPut(@, key, [exportName |-> Name, value |-> Value])])
       ELSE IF Truthy(Export) /\ ~StartsWith(key, ExportsOutputFn)
         THEN FindExports(outputs, i + 1,
                [acc EXCEPT !.namedExports =
                   MapPut(@, Name, [key |-> key, value |-> Value])])
       ELSE FindExports(outputs, i + 1, acc)

\* The values kept in exportsOutputFn and namedExports are the objects of the
\* content tree itself; main reads them only before the replacement loop, and
\* the export values of the documents below hold no import, so the copies
\* kept here never differ from them.
analyzeTemplate(filePath, file) ==
  LET content == JSONparse(file)
      outputs == IF Truthy(Get(content, <<"Outputs">>))
                   THEN Get(content, <<"Outputs">>) ELSE Obj(<<>>)
      found == FindExports(outputs, 1,
                 [exportsOutputFn |-> EmptyMap, namedExports |-> EmptyMap])
  IN [exportsOutputFn |-> found.exportsOutputFn,
      namedExports |-> found.namedExports,
      imports |-> findImports(content, <<>>),
      content |-> content,
      filePath |-> filePath]

\* ------------------------------------------------ findMatchingNamedExport
\* findMatchingAny: the comparison of line 94 left out (the first named export
\* whatever its value).
findMatchingAny(exportsOutputFnKey, exportsOutputFnValue, named) ==
  IF Len(named) > 0 THEN Str(named[1][1]) ELSE Null
findMatchingNamedExport(exportsOutputFnKey, exportsOutputFnValue, named) ==
  LET hits == {i \in 1..Len(named) :
                 JSONstringify(named[i][2].value)
                   = JSONstringify(exportsOutputFnValue)}
  IN IF hits = {} THEN Null
     ELSE Str(named[CHOOSE i \in hits : \A j \in hits : i <= j][1])

\* ------------------------------------------------ replaceImportsInObject
\* [obj |-> the object after the in-place edits, changed |-> the return value]
RECURSIVE replaceImportsInObject(_, _)
replaceImportsInObject(obj, repl) ==
  IF ~IsObject(obj) THEN [obj |-> obj, changed |-> FALSE]
  ELSE
    LET importValue == Get(obj, FnImportValue)
    IN IF Truthy(importValue) /\ importValue.t = "s"
          /\ MapHas(repl, importValue.s)
          /\ Truthy(Str(MapGet(repl, importValue.s)))
         THEN [obj |-> SetKey(obj, FnImportValue,
                              Str(MapGet(repl, importValue.s))),
               changed |-> TRUE]
       ELSE
         LET sub == [i \in 1..Len(obj.k) |->
                       replaceImportsInObject(obj.k[i][2], repl)]
         IN [obj |-> [obj EXCEPT !.k = [i \in 1..Len(obj.k) |->
                                          <<obj.k[i][1], sub[i].obj>>]],
             changed |-> \E i \in 1..Len(obj.k) : sub[i].changed]

\* ---------------------------------------------------------------- main
\* The loop over Object.entries(analysis.exportsOutputFn) of lines 149-156:
\* acc is [replacements, matchCount].
RECURSIVE MatchExports(_, _, _, _)
MatchExports(exports, i, named, acc) ==
  IF i > Len(exports) THEN acc
  ELSE
    LET exportsKey == exports[i][1]
        exportsData == exports[i][2]
        matchingNamed == findMatchingNamedExport(exportsKey, exportsData.value, named)
    IN IF Truthy(matchingNamed)
         THEN MatchExports(exports, i + 1, named,
                [replacements |-> MapPut(acc.replacements, exportsData.exportName,
                                         matchingNamed.s),
                 matchCount |-> acc.matchCount + 1])
         ELSE MatchExports(exports, i + 1, named, acc)

\* replacements[importData.value] as a condition
Replaces(repl, value) == MapHas(repl, value) /\ Truthy(Str(MapGet(repl, value)))

\* The loop over analysis.imports of lines 171-177: how many imports it counts
\* (fileChanged is TRUE when it counts one or more).  CountFirstImport: the
\* loop left after its first iteration.
CountFirstImport(imports, repl) ==
  IF Len(imports) > 0 /\ Replaces(repl, imports[1].value) THEN 1 ELSE 0
CountImports(imports, repl) ==
  Cardinality({i \in 1..Len(imports) : Replaces(repl, imports[i].value)})

\* ------------------------------------------------------- template files
\* The documents the runs are checked on.  Export names are non-empty strings.
SynA == <<"Stk:", ExportsOutputFn, "A">>
Syn7 == <<"Export7f3a">>
SynK == <<"Stk:", ExportsOutputFn, "K">>
SynU == <<"Stk:", ExportsOutputFn, "U">>
SharedA == <<"SharedBucketArn">>
SharedB == <<"SharedB">>
SharedK == <<"SharedK">>
SharedK2 == <<"SharedK2">>

ValA == Obj(<< << <<"Fn::GetAtt">>, Arr(<<Str(<<"BucketA">>), Str(<<"Arn">>)>>) >> >>)
ValK == Obj(<< << <<"a">>, Str(<<"1">>) >>, << <<"b">>, Str(<<"2">>) >> >>)
ValKr == Obj(<< << <<"b">>, Str(<<"2">>) >>, << <<"a">>, Str(<<"1">>) >> >>)
ValU == Obj(<< << <<"Ref">>, Str(<<"Queue">>) >> >>)

Output(name, value) ==
  Obj(<< << <<"Export">>, Obj(<< << <<"Name">>, Str(name) >> >>) >>,
         << <<"Value">>, value >> >>)
ImportValue(target) == Obj(<< << FnImportValue, Str(target) >> >>)

\* node under d levels of nesting, sequences and mappings alternating
RECURSIVE Nest(_, _)
Nest(node, d) ==
  IF d = 0 THEN node
  ELSE IF d % 2 = 1 THEN Arr(<< Str(<<"x">>), Nest(node, d - 1) >>)
  ELSE Obj(<< << <<"Properties">>, Nest(node, d - 1) >> >>)

Template(outputs, resources) ==
  [fmt |-> "source",
   tree |-> Obj(<< << <<"Resources">>, resources >>,
                   << <<"Outputs">>, Obj(outputs) >> >>)]

\* X: a synthetic export and a reference to it, d levels deep
DocX(d) ==
  Template(<< << <<ExportsOutputFn, "A1">>, Output(SynA, ValA) >> >>,
           Nest(ImportValue(SynA), d))
\* Y: the named export with the same value; an output that is not exported
DocY ==
  Template(<< << <<"BucketArnExport">>, Output(SharedA, ValA) >>,
              << <<"Plain">>, Obj(<< << <<"Value">>, ValU >> >>) >> >>,
           Str(<<"none">>))
\* a second named export with that value; a reference to a named export and
\* one to a synthetic export nothing resolves
DocY2 ==
  Template(<< << <<"Other">>, Output(SharedB, ValA) >> >>,
           Arr(<< ImportValue(SharedA), ImportValue(SynU) >>))
\* the synthetic export whose export name lacks 'ExportsOutputFn', referenced
\* three levels deep inside an array
Doc7 ==
  Template(<< << <<ExportsOutputFn, "7">>, Output(Syn7, ValA) >> >>,
           Arr(<< Arr(<< Arr(<< ImportValue(Syn7) >>) >>) >>))
\* a synthetic and a named export whose values list the same keys in another order
DocK ==
  Template(<< << <<ExportsOutputFn, "K1">>, Output(SynK, ValK) >>,
              << <<"KExport">>, Output(SharedK, ValKr) >> >>,
           ImportValue(SynK))
\* a named export whose value lists its keys as the synthetic export of K does
DocK2 ==
  Template(<< << <<"KExport2">>, Output(SharedK2, ValK) >> >>,
           Str(<<"none">>))
\* both exports of one value and a reference to the synthetic one, in one file
DocSelf ==
  Template(<< << <<ExportsOutputFn, "A1">>, Output(SynA, ValA) >>,
              << <<"BucketArnExport">>, Output(SharedA, ValA) >> >>,
           Obj(<< << <<"Policy">>, Arr(<< ImportValue(SynA) >>) >> >>))
\* several references: an unresolved one first, a non-string target, named ones
DocRefs ==
  Template(<< << <<"BucketArnExport">>, Output(SharedA, ValA) >> >>,
           Arr(<< ImportValue(SynU), ImportValue(SynA),
                  Obj(<< << FnImportValue, Obj(<< << <<"Fn::Sub">>, Str(SynA) >> >>) >> >>),
                  Obj(<< << <<"Deep">>, Arr(<< ImportValue(SynA) >>) >> >>),
                  ImportValue(SharedB) >>))
\* a mapping with the import key and a second key holding another reference
DocNest ==
  Template(<< << <<"BucketArnExport">>, Output(SharedA, ValA) >> >>,
           Obj(<< << FnImportValue, Str(SynA) >>,
                  << <<"Nested">>, ImportValue(SynA) >> >>))
\* a synthetic export no named export matches, and a reference to it
DocU ==
  Template(<< << <<ExportsOutputFn, "U1">>, Output(SynU, ValU) >> >>,
           Obj(<< << <<"Queue">>, ImportValue(SynU) >> >>))
\* the same named export as Y with another value (the later one overwrites)
DocOver ==
  Template(<< << <<"BucketArnExport2">>, Output(SharedA, ValU) >> >>,
           Str(<<"none">>))
\* a file that is not JSON
DocBad == [fmt |-> "invalid", tree |-> Undefined]

Templates ==
  {DocX(d) : d \in 0..MaxDepth}
    \cup {DocY, DocY2, Doc7, DocK, DocK2, DocSelf, DocRefs, DocNest, DocU,
          DocOver, DocBad}

\* findTemplateFiles(CDK_OUT_DIR): the paths, in directory order
templateFiles == [i \in 1..NumFiles |-> i]

\* ------------------------------------------------------------------ state
VARIABLES
  files,              \* path -> file on disk
  files0,             \* the files as they were when the current run started
  run,                \* number of the current run
  pc,                 \* position in main()
  idx,                \* index of the current loop over analyses
  analyses,           \* main: analyses (content is mutated in place)
  allNamedExports,    \* main: allNamedExports
  replacements,       \* main: replacements
  matchCount,         \* main: matchCount
  totalReplacements,  \* main: totalReplacements
  written,            \* paths passed to fs.writeFileSync in the current run
  summary             \* the numbers of the final console.log, or NoSummary

vars == <<files, files0, run, pc, idx, analyses, allNamedExports, replacements,
          matchCount, totalReplacements, written, summary>>

NoSummary == [printed |-> FALSE, replacements |-> 0, files |-> 0]

StartOfMain ==
  /\ pc = "analyze"
  /\ idx = 1
  /\ analyses = <<>>
  /\ allNamedExports = EmptyMap
  /\ replacements = EmptyMap
  /\ matchCount = 0
  /\ totalReplacements = 0
  /\ written = {}
  /\ summary = NoSummary

Init ==
  /\ files \in [1..NumFiles -> Templates]
  /\ files0 = files
  /\ run = 1
  /\ StartOfMain

\* line 134, one call of analyzeTemplate by templateFiles.map
Analyze ==
  /\ pc = "analyze"
  /\ ~ParseFails(files[templateFiles[idx]])
  /\ analyses' = Append(analyses,
                        analyzeTemplate(templateFiles[idx], files[templateFiles[idx]]))
  /\ IF idx = Len(templateFiles)
       THEN pc' = "collect" /\ idx' = 1
       ELSE pc' = "analyze" /\ idx' = idx + 1
  /\ UNCHANGED <<files, files0, run, allNamedExports, replacements, matchCount,
                 totalReplacements, written, summary>>

\* line 48: JSON.parse throws and nothing catches it
AnalyzeThrows ==
  /\ pc = "analyze"
  /\ ParseFails(files[templateFiles[idx]])
  /\ pc' = "aborted"
  /\ UNCHANGED <<files, files0, run, idx, analyses, allNamedExports, replacements,
                 matchCount, totalReplacements, written, summary>>

\* lines 138-140, one iteration
CollectNamedExports ==
  /\ pc = "collect"
  /\ allNamedExports' = ObjectAssign(allNamedExports, analyses[idx].namedExports)
  /\ IF idx = Len(analyses)
       THEN pc' = "match" /\ idx' = 1
       ELSE pc' = "collect" /\ idx' = idx + 1
  /\ UNCHANGED <<files, files0, run, analyses, replacements, matchCount,
                 totalReplacements, written, summary>>

\* lines 148-157, one iteration of the outer loop
FindMatches ==
  /\ pc = "match"
  /\ LET acc == MatchExports(analyses[idx].exportsOutputFn, 1, allNamedExports,
                             [replacements |-> replacements, matchCount |-> matchCount])
     IN /\ replacements' = acc.replacements
        /\ matchCount' = acc.matchCount
  /\ IF idx = Len(analyses)
       THEN pc' = "apply" /\ idx' = 1
       ELSE pc' = "match" /\ idx' = idx + 1
  /\ UNCHANGED <<files, files0, run, analyses, allNamedExports, totalReplacements,
                 written, summary>>

\* lines 161-164: return before the replacement loop and the summary
NoOptimizations ==
  /\ pc = "apply"
  /\ matchCount = 0
  /\ pc' = "done"
  /\ UNCHANGED <<files, files0, run, idx, analyses, allNamedExports, replacements,
                 matchCount, totalReplacements, written, summary>>

\* lines 168-186, one iteration
ApplyReplacements ==
  /\ pc = "apply"
  /\ matchCount # 0
  /\ LET analysis == analyses[idx]
         counted == CountImports(analysis.imports, replacements)
         fileChanged == counted > 0
         res == replaceImportsInObject(analysis.content, replacements)
     IN /\ totalReplacements' = totalReplacements + counted
        /\ analyses' = IF fileChanged
                         THEN [analyses EXCEPT ![idx].content = res.obj]
                         ELSE analyses
        /\ IF fileChanged /\ res.changed
             THEN /\ files' = [files EXCEPT ![analysis.filePath] =
                                 [fmt |-> "indent1", tree |-> res.obj]]
                  /\ written' = written \cup {analysis.filePath}
             ELSE UNCHANGED <<files, written>>
  /\ IF idx = Len(analyses)
       THEN pc' = "summary" /\ idx' = 1
       ELSE pc' = "apply" /\ idx' = idx + 1
  /\ UNCHANGED <<files0, run, allNamedExports, replacements, matchCount, summary>>

\* line 188
Summary ==
  /\ pc = "summary"
  /\ summary' = [printed |-> TRUE, replacements |-> totalReplacements,
                 files |-> Len(templateFiles)]
  /\ pc' = "done"
  /\ UNCHANGED <<files, files0, run, idx, analyses, allNamedExports, replacements,
                 matchCount, totalReplacements, written>>

\* the tool is started again on the files the previous run left
RunAgain ==
  /\ pc = "done"
  /\ run < MaxRuns
  /\ run' = run + 1
  /\ files0' = files
  /\ pc' = "analyze"
  /\ idx' = 1
  /\ analyses' = <<>>
  /\ allNamedExports' = EmptyMap
  /\ replacements' = EmptyMap
  /\ matchCount' = 0
  /\ totalReplacements' = 0
  /\ written' = {}
  /\ summary' = NoSummary
  /\ UNCHANGED files

Next ==
  \/ Analyze
  \/ AnalyzeThrows
  \/ CollectNamedExports
  \/ FindMatches
  \/ NoOptimizations
  \/ ApplyReplacements
  \/ Summary
  \/ RunAgain

Spec == Init /\ [][Next]_vars

\* ============================================================= properties
\* ------------------------------------------------ notions the claims use
\* Structural equality of two values: the same keys with equal values for
\* mappings whatever the order they are listed in, the same elements in the
\* same order for sequences, the same string for scalars.
RECURSIVE StructEq(_, _)
StructEq(a, b) ==
  /\ a.t = b.t
  /\ a.s = b.s
  /\ Len(a.k) = Len(b.k)
  /\ IF a.t = "a"
       THEN \A i \in 1..Len(a.k) : StructEq(a.k[i][2], b.k[i][2])
       ELSE /\ {a.k[i][1] : i \in 1..Len(a.k)} = {b.k[i][1] : i \in 1..Len(b.k)}
            /\ \A i \in 1..Len(a.k) : StructEq(a.k[i][2], Get(b, a.k[i][1]))

\* A reference: a mapping whose import key holds a string, the target.  This
\* is what findImports and replaceImportsInObject take for one; a reference
\* marker (a mapping with the import key alone) is the usual case of it.
IsMarker(node) == node.t = "o" /\ Get(node, FnImportValue).t = "s"
Target(node) == Get(node, FnImportValue).s

\* The targets of the references of a tree.
RECURSIVE MarkerTargets(_)
MarkerTargets(node) ==
  (IF IsMarker(node) THEN {Target(node)} ELSE {})
    \cup UNION {MarkerTargets(node.k[i][2]) : i \in 1..Len(node.k)}

\* The number of references of the tree orig whose target is a key of repl
\* and which, at the same place of the tree now, do not target its entry.
RECURSIVE StaleRefs(_, _, _)
StaleRefs(orig, now, repl) ==
  LET here == IF IsMarker(orig) /\ MapHas(repl, Target(orig))
                 /\ Get(now, FnImportValue) # Str(MapGet(repl, Target(orig)))
                THEN 1 ELSE 0
      Below[i \in 0..Len(orig.k)] ==
        IF i = 0 THEN 0
        ELSE Below[i - 1] + StaleRefs(orig.k[i][2], now.k[i][2], repl)
  IN here + Below[Len(orig.k)]

\* The number of places where the trees orig and now differ in an import target.
RECURSIVE RewrittenRefs(_, _)
RewrittenRefs(orig, now) ==
  LET here == IF Get(orig, FnImportValue).t = "s"
                 /\ Get(now, FnImportValue) # Get(orig, FnImportValue)
                THEN 1 ELSE 0
      Below[i \in 0..Len(orig.k)] ==
        IF i = 0 THEN 0
        ELSE Below[i - 1] + RewrittenRefs(orig.k[i][2], now.k[i][2])
  IN here + Below[Len(orig.k)]

Paths == 1..NumFiles
\* The export records of all analyses.
SyntheticExports ==
  UNION {{analyses[i].exportsOutputFn[j][2] :
            j \in 1..Len(analyses[i].exportsOutputFn)} : i \in 1..Len(analyses)}
\* Matching is over: the replacement loop, the summary or the end of main.
Matched == pc \in {"apply", "summary", "done"}
\* analysis i has been through the replacement loop
Applied(i) == matchCount # 0 /\ (pc \in {"summary", "done"} \/ (pc = "apply" /\ i < idx))
\* The file at path p is as the run found it, and so is its tree in memory.
Untouched(p) ==
  /\ files[p] = files0[p]
  /\ p \notin written
  /\ p <= Len(analyses) => analyses[p].content = files0[p].tree
\* The catalog and the replacement map of a complete pass over the analyses.
RECURSIVE CatalogOf(_, _)
CatalogOf(done, n) ==
  IF n = 0 THEN EmptyMap ELSE ObjectAssign(CatalogOf(done, n - 1), done[n].namedExports)
RECURSIVE ResolutionOf(_, _, _)
ResolutionOf(done, n, named) ==
  IF n = 0 THEN [replacements |-> EmptyMap, matchCount |-> 0]
  ELSE MatchExports(done[n].exportsOutputFn, 1, named,
                    ResolutionOf(done, n - 1, named))

\* ------------------------------------------------------------------ C1
\* C1 (idempotence): a second run of the pipeline on the files the first run
\* left counts no replacement and writes no file.
C1_Idempotent ==
  (run = 2 /\ pc = "done") => (totalReplacements = 0 /\ written = {})

\* ------------------------------------------------------------------ C2
\* C2 (soundness): every entry synthetic -> named of the replacement map is
\* the export name of a synthetic export whose value is structurally equal to
\* the value the catalog holds under the named export name.
C2_Sound ==
  \A r \in 1..Len(replacements) :
    /\ MapHas(allNamedExports, replacements[r][2])
    /\ \E e \in SyntheticExports :
         /\ e.exportName = replacements[r][1]
         /\ StructEq(e.value, MapGet(allNamedExports, replacements[r][2]).value)
\* a run that ended with an entry in the map while the catalog also holds a
\* named export with another value
C2_Witness ==
  /\ pc = "done"
  /\ Len(replacements) > 0
  /\ \E n \in 1..Len(allNamedExports), e \in SyntheticExports :
       MapHas(replacements, e.exportName)
         /\ ~StructEq(allNamedExports[n][2].value, e.value)

\* ------------------------------------------------------------------ C3
\* C3 (completeness of rewrite): once a document has been through the
\* replacement loop, if the scanner recorded in it an import whose target is a
\* key of the replacement map, the document was written back in this run, and
\* the file holds the rewritten tree.
C3_Complete ==
  \A i \in 1..Len(analyses) :
    ( /\ pc \in {"apply", "summary", "done"}
      /\ pc = "apply" => i < idx
      /\ \E j \in 1..Len(analyses[i].imports) :
           MapHas(replacements, analyses[i].imports[j].value) )
    => /\ analyses[i].filePath \in written
       /\ files[analyses[i].filePath] =
            [fmt |-> "indent1", tree |-> analyses[i].content]
       /\ analyses[i].content # files0[analyses[i].filePath].tree
\* a written document whose first recorded import is not in the map
C3_Witness ==
  /\ pc = "done"
  /\ \E i \in 1..Len(analyses) :
       /\ analyses[i].filePath \in written
       /\ Len(analyses[i].imports) > 1
       /\ ~MapHas(replacements, analyses[i].imports[1].value)

\* ------------------------------------------------------------------ C4
\* C4 (no-op preservation): a document none of whose references has a target
\* that carries the synthetic prefix and is a key of the replacement map (no
\* synthetic reference, or unresolved ones only) is not written back, and its
\* file and its tree in memory stay as the run found them; so does every
\* document when the map is empty, and no document is touched before matching
\* is over.
C4_NoOpPreserved ==
  \A p \in Paths :
    ( \/ ~Matched
      \/ Len(replacements) = 0
      \/ \A t \in MarkerTargets(files0[p].tree) :
           ~(Includes(t, ExportsOutputFn) /\ MapHas(replacements, t)) )
    => Untouched(p)
\* a run that wrote one document and left alone one that refers to a synthetic
\* export nothing resolved
C4_Witness ==
  /\ pc = "done"
  /\ written # {}
  /\ \E p \in Paths :
       /\ Untouched(p)
       /\ \E t \in MarkerTargets(files0[p].tree) :
            Includes(t, ExportsOutputFn) /\ ~MapHas(replacements, t)

\* ------------------------------------------------------------------ C5
\* C5 (depth independence, full traversal): after replaceImportsInObject has
\* run on a document, every reference marker of the original tree whose target
\* is a key of the replacement map targets the map's entry, at any depth.
C5_FullTraversal ==
  \A i \in 1..Len(analyses) :
    (Applied(i) /\ CountImports(analyses[i].imports, replacements) > 0)
    => StaleRefs(files0[analyses[i].filePath].tree, analyses[i].content,
                 replacements) = 0

\* ------------------------------------------------------------------ C6
\* C6 (end to end, by declaration key): if a document declares an output under
\* a synthetic key with export name S, the only synthetic export of that name,
\* and exactly one named export N of the catalog has an identical value, then
\* after the run every reference marker that targeted S targets N.
C6_EndToEnd ==
  (pc = "done" /\ run = 1) =>
    \A e \in SyntheticExports :
      \A n \in 1..Len(allNamedExports) :
        ( /\ allNamedExports[n][2].value = e.value
          /\ \A m \in 1..Len(allNamedExports) :
               allNamedExports[m][2].value = e.value => m = n
          /\ \A e2 \in SyntheticExports : e2.exportName = e.exportName => e2 = e )
        => \A p \in Paths :
             StaleRefs(files0[p].tree, analyses[p].content,
                       << <<e.exportName, allNamedExports[n][1]>> >>) = 0

\* ------------------------------------------------------------------ C7
\* C7 (structural matching): once matching is over, every synthetic export
\* whose value is structurally equal to the value of some named export of the
\* catalog has an entry in the replacement map.
C7_StructuralMatch ==
  Matched =>
    \A e \in SyntheticExports :
      (\E n \in 1..Len(allNamedExports) :
         StructEq(allNamedExports[n][2].value, e.value))
      => MapHas(replacements, e.exportName)

\* ------------------------------------------------------------------ C8
\* C8 (tie-break): once matching is over, a synthetic export (the only one of
\* its export name) is mapped to the first named export, in catalog order,
\* whose value is structurally equal to its own when there are several, and
\* has no entry when there is none.
C8_TieBreak ==
  Matched =>
    \A e \in SyntheticExports :
      (\A e2 \in SyntheticExports : e2.exportName = e.exportName => e2 = e)
      => LET equal == {n \in 1..Len(allNamedExports) :
                         StructEq(allNamedExports[n][2].value, e.value)}
         IN /\ equal = {} => ~MapHas(replacements, e.exportName)
            /\ Cardinality(equal) > 1 =>
                 /\ MapHas(replacements, e.exportName)
                 /\ MapGet(replacements, e.exportName) =
                      allNamedExports[CHOOSE n \in equal :
                                        \A m \in equal : n <= m][1]

\* ------------------------------------------------------------------ C9
\* C9 (pipeline order, fail fast): matching starts only when every document
\* has been analysed and cataloged; a document is rewritten or written only
\* when matching over all documents is complete; a run on a file set that
\* holds a file that does not parse writes nothing and ends aborted.
C9_PipelineOrder ==
  /\ (pc \in {"match", "apply", "summary", "done"} \/ Len(replacements) > 0
        \/ matchCount > 0)
     => /\ Len(analyses) = Len(templateFiles)
        /\ allNamedExports =
             CatalogOf([i \in 1..Len(analyses) |->
                          analyzeTemplate(i, files0[i])], Len(analyses))
  /\ (\E p \in Paths : ~Untouched(p))
     => /\ Matched
        /\ [replacements |-> replacements, matchCount |-> matchCount] =
             ResolutionOf([i \in 1..Len(analyses) |->
                             analyzeTemplate(i, files0[i])],
                          Len(analyses), allNamedExports)
  /\ (\E p \in Paths : files0[p].fmt = "invalid")
     => /\ \A p \in Paths : Untouched(p)
        /\ pc \in {"analyze", "aborted"}
\* a run aborted by a file that does not parse, after a document with a
\* resolvable reference was analysed
C9_Witness ==
  /\ pc = "aborted"
  /\ Len(analyses) > 0
  /\ \E i \in 1..Len(analyses) :
       /\ Len(analyses[i].imports) > 0
       /\ Len(analyses[i].exportsOutputFn) > 0
       /\ Len(analyses[i].namedExports) > 0

\* ------------------------------------------------------------------ C10
\* C10 (summary accuracy): the summary line reports as replacements the number
\* of import targets rewritten in the trees and as files the number of
\* documents written in the run.
C10_SummaryAccurate ==
  LET Rewritten[i \in 0..Len(analyses)] ==
        IF i = 0 THEN 0
        ELSE Rewritten[i - 1]
               + RewrittenRefs(files0[analyses[i].filePath].tree, analyses[i].content)
  IN (pc = "done" /\ summary.printed)
     => /\ summary.replacements = Rewritten[Len(analyses)]
        /\ summary.files = Cardinality(written)

=============================================================================
